---- MODULE Spec2Model ----
(***************************************************************************)
(* Model of backend/routes/chat.py: the Chat object (component cache,      *)
(* session state), Chat.stream, and the two response handlers that turn    *)
(* the agent runtime's events into text fragments.                         *)
(*                                                                         *)
(* Text is modelled at two levels.  A fragment, a key or a string value is *)
(* a TLA+ string, built with \o exactly where the source builds an         *)
(* f-string.  JSON text (the step buffer, a tool response's content) is a  *)
(* sequence of lexemes, so that json.loads is a real parser that can fail. *)
(* The emoji of the source's literals are left out of the model's strings  *)
(* and a backquote is written ~ (a TLA+ string holds neither); everything  *)
(* else of a literal is kept.                                              *)
(*                                                                         *)
(* Every record constructor lists its fields in the order in which the     *)
(* field names first appear as identifiers in this module, the order in    *)
(* which the model checker keeps them: its workers then never reorder a    *)
(* record that they share.                                                 *)
(***************************************************************************)
EXTENDS Integers, Sequences, FiniteSets, TLC

(***************************************************************************)
(* Bounds of the model.                                                    *)
(***************************************************************************)
MaxEvents == 3      \* events of one turn
MaxTurns == 2       \* calls served by one Chat object
MaxItems == 4       \* entries of a generated list-shaped tool result
MaxKeys == 6        \* keys of a generated dict-shaped tool result
MaxTools == 2       \* recorded tool results in the formatting specification

(***************************************************************************)
(* JSON lexemes.  k: "p" punctuation, "str" a string literal with content  *)
(* s, "num" an integer literal n, "lit" null/true/false, "junk" text that  *)
(* is no JSON lexeme.                                                      *)
(***************************************************************************)
Punct(c) == [k |-> "p", s |-> c, n |-> 0]
StrTok(c) == [k |-> "str", s |-> c, n |-> 0]
NumTok(i) == [k |-> "num", s |-> "", n |-> i]
LitTok(c) == [k |-> "lit", s |-> c, n |-> 0]
JunkTok(c) == [k |-> "junk", s |-> c, n |-> 0]

\* The characters a lexeme stands for.
TokText(t) ==
    CASE t.k = "str" -> "\"" \o t.s \o "\""
      [] t.k = "num" -> ToString(t.n)
      [] OTHER -> t.s

RECURSIVE RawText(_)
\* The text a lexeme sequence stands for (what {current_step_content} prints).
RawText(toks) ==
    IF toks = <<>> THEN "" ELSE TokText(Head(toks)) \o RawText(Tail(toks))

(***************************************************************************)
(* JSON values as json.loads builds them.  t: "null", "true", "false",     *)
(* "num", "str", "list" (items: the elements), "dict" (items: the          *)
(* <<key, value>> pairs in insertion order).                               *)
(***************************************************************************)
JNull == [s |-> "", n |-> 0, t |-> "null", items |-> <<>>]
JBool(b) == [s |-> "", n |-> 0, t |-> IF b THEN "true" ELSE "false", items |-> <<>>]
JNum(i) == [s |-> "", n |-> i, t |-> "num", items |-> <<>>]
JStr(c) == [s |-> c, n |-> 0, t |-> "str", items |-> <<>>]
JList(xs) == [s |-> "", n |-> 0, t |-> "list", items |-> xs]
JDict(kvs) == [s |-> "", n |-> 0, t |-> "dict", items |-> kvs]

IsDict(v) == v.t = "dict"
IsList(v) == v.t = "list"
IsStr(v) == v.t = "str"

\* dict[key] = value: a repeated key keeps its position and takes the new value.
DictSet(kvs, key, val) ==
    IF \E i \in 1..Len(kvs) : kvs[i][1] = key
    THEN [i \in 1..Len(kvs) |-> IF kvs[i][1] = key THEN <<key, val>> ELSE kvs[i]]
    ELSE Append(kvs, <<key, val>>)

HasKey(d, key) == \E i \in 1..Len(d.items) : d.items[i][1] = key

DictIndex(d, key) == CHOOSE i \in 1..Len(d.items) : d.items[i][1] = key

\* dict.get(key, default)
DictGet(d, key, default) ==
    IF HasKey(d, key) THEN d.items[DictIndex(d, key)][2] ELSE default

(***************************************************************************)
(* json.loads: a recursive-descent parser over the lexemes.  A parse       *)
(* result is [ok, v, i]: i is the position after the parsed value.         *)
(***************************************************************************)
ParseFail == [i |-> 0, v |-> JNull, ok |-> FALSE]
ParseOk(v, i) == [i |-> i, v |-> v, ok |-> TRUE]

IsP(toks, i, c) == i <= Len(toks) /\ toks[i].k = "p" /\ toks[i].s = c

RECURSIVE ParseValue(_, _), ParseElements(_, _, _), ParseMembers(_, _, _)
ParseValue(toks, i) ==
    IF i > Len(toks) THEN ParseFail
    ELSE LET t == toks[i] IN
         CASE t.k = "str" -> ParseOk(JStr(t.s), i + 1)
           [] t.k = "num" -> ParseOk(JNum(t.n), i + 1)
           [] t.k = "lit" /\ t.s = "null" -> ParseOk(JNull, i + 1)
           [] t.k = "lit" /\ t.s = "true" -> ParseOk(JBool(TRUE), i + 1)
           [] t.k = "lit" /\ t.s = "false" -> ParseOk(JBool(FALSE), i + 1)
           [] t.k = "p" /\ t.s = "[" ->
                IF IsP(toks, i + 1, "]") THEN ParseOk(JList(<<>>), i + 2)
                ELSE ParseElements(toks, i + 1, <<>>)
           [] t.k = "p" /\ t.s = "{" ->
                IF IsP(toks, i + 1, "}") THEN ParseOk(JDict(<<>>), i + 2)
                ELSE ParseMembers(toks, i + 1, <<>>)
           [] OTHER -> ParseFail

\* value ("," value)* "]" from position i, acc the elements so far.
ParseElements(toks, i, acc) ==
    LET r == ParseValue(toks, i) IN
    IF ~r.ok THEN ParseFail
    ELSE IF IsP(toks, r.i, "]") THEN ParseOk(JList(Append(acc, r.v)), r.i + 1)
    ELSE IF IsP(toks, r.i, ",") THEN ParseElements(toks, r.i + 1, Append(acc, r.v))
    ELSE ParseFail

\* string ":" value ("," string ":" value)* "}" from position i.
ParseMembers(toks, i, acc) ==
    IF ~(i <= Len(toks) /\ toks[i].k = "str" /\ IsP(toks, i + 1, ":")) THEN ParseFail
    ELSE LET r == ParseValue(toks, i + 2) IN
         IF ~r.ok THEN ParseFail
         ELSE IF IsP(toks, r.i, "}")
              THEN ParseOk(JDict(DictSet(acc, toks[i].s, r.v)), r.i + 1)
         ELSE IF IsP(toks, r.i, ",")
              THEN ParseMembers(toks, r.i + 1, DictSet(acc, toks[i].s, r.v))
         ELSE ParseFail

\* json.loads(text): [ok |-> FALSE] stands for json.JSONDecodeError.
json_loads(toks) ==
    LET r == ParseValue(toks, 1) IN
    IF r.ok /\ r.i = Len(toks) + 1 THEN [v |-> r.v, ok |-> TRUE]
    ELSE [v |-> JNull, ok |-> FALSE]


(***************************************************************************)
(* Python's view of a parsed value.                                        *)
(***************************************************************************)
\* bool(v): None, False, 0, "", [] and {} are falsy.
Truthy(v) ==
    CASE v.t = "null" -> FALSE
      [] v.t = "false" -> FALSE
      [] v.t = "true" -> TRUE
      [] v.t = "num" -> v.n # 0
      [] v.t = "str" -> v.s # ""
      [] OTHER -> v.items # <<>>

\* type(v).__name__, as it appears in an AttributeError's message.
TypeName(v) ==
    CASE v.t = "null" -> "NoneType"
      [] v.t \in {"true", "false"} -> "bool"
      [] v.t = "num" -> "int"
      [] OTHER -> v.t

RECURSIVE PyRepr(_), ReprItems(_), ReprPairs(_)
\* repr(v)
PyRepr(v) ==
    CASE v.t = "null" -> "None"
      [] v.t = "true" -> "True"
      [] v.t = "false" -> "False"
      [] v.t = "num" -> ToString(v.n)
      [] v.t = "str" -> "'" \o v.s \o "'"
      [] v.t = "list" -> "[" \o ReprItems(v.items) \o "]"
      [] OTHER -> "{" \o ReprPairs(v.items) \o "}"

ReprItems(xs) ==
    IF xs = <<>> THEN ""
    ELSE PyRepr(Head(xs)) \o (IF Len(xs) > 1 THEN ", " ELSE "") \o ReprItems(Tail(xs))

ReprPairs(kvs) ==
    IF kvs = <<>> THEN ""
    ELSE "'" \o Head(kvs)[1] \o "': " \o PyRepr(Head(kvs)[2])
         \o (IF Len(kvs) > 1 THEN ", " ELSE "") \o ReprPairs(Tail(kvs))

\* str(v), what an f-string's {v} prints: a string prints as itself.
PyStr(v) == IF v.t = "str" THEN v.s ELSE PyRepr(v)

(***************************************************************************)
(* Strings are opaque to TLC, so the two operations of the source that     *)
(* look inside a string are computed by decomposition over the strings of  *)
(* the model: s contains sub when s = a \o sub \o b for affixes a, b, and  *)
(* s.strip() is the word w with s = a \o w \o b for whitespace a, b.       *)
(***************************************************************************)
Affixes == {"", "no ", " here"}
Whitespace == {"", " ", "\n"}
Words == {"", "alpha", "beta", "gamma", "delta", "x y"}

\* sub in s, for two Python strings
StrContains(s, sub) == \E a \in Affixes, b \in Affixes : s = a \o sub \o b

\* s.strip()
Strip(s) ==
    IF \E w \in Words, a \in Whitespace, b \in Whitespace : s = a \o w \o b
    THEN CHOOSE w \in Words : \E a \in Whitespace, b \in Whitespace : s = a \o w \o b
    ELSE s

\* `key in parsed`: a TypeError for a value that is no container.
PyIn(key, v) ==
    CASE v.t = "dict" -> [val |-> HasKey(v, key), err |-> ""]
      [] v.t = "list" -> [val |-> (\E i \in 1..Len(v.items) : v.items[i] = JStr(key)), err |-> ""]
      [] v.t = "str" -> [val |-> StrContains(v.s, key), err |-> ""]
      [] OTHER -> [val |-> FALSE, err |-> "TypeError"]

(***************************************************************************)
(* The tool-results summary.  A formatter's result is [frags, err]: the    *)
(* fragments it yielded and the exception that ended it ("" for none).     *)
(***************************************************************************)
MaxListEntries == 3     \* `if i <= 3`, `parsed_content[:3]`
MaxDictKeys == 5        \* `list(parsed_content.items())[:5]`
MaxValueLen == 100      \* `len(value) < 100`

Yielded(frags) == [err |-> "", frags |-> frags]
Raised(frags, e) == [err |-> e, frags |-> frags]

FENCE_OPEN == "\n~~~\n"
FENCE_CLOSE == "~~~\n"

SUMMARY_HEADER == "\n\n**Here's what I found:**\n"

ComplexDataFragment(tool_name) ==
    "\n**" \o tool_name \o "** was used but returned complex data. Check the observation for details.\n"

WebSearchFragment(title, content_text, url) ==
    "\n- **" \o title \o "**\n  " \o content_text \o "\n  [Source](" \o url \o ")\n"

RECURSIVE WebSearchLoop(_, _, _)
\* The loop of _format_web_search_results from entry i on, acc yielded so far.
WebSearchLoop(top_k, i, acc) ==
    IF i > Len(top_k) THEN Yielded(acc)
    ELSE IF i > MaxListEntries THEN WebSearchLoop(top_k, i + 1, acc)
    ELSE LET result == top_k[i] IN
         IF ~IsDict(result) THEN Raised(acc, "AttributeError")
         ELSE LET title == DictGet(result, "title", JStr("Untitled"))
                  url == DictGet(result, "url", JStr(""))
                  content == DictGet(result, "content", JStr(""))
              IN IF ~IsStr(content) THEN Raised(acc, "AttributeError")
                 ELSE WebSearchLoop(top_k, i + 1,
                        Append(acc, WebSearchFragment(PyStr(title), Strip(content.s), PyStr(url))))

\* _format_web_search_results(parsed_content), `"top_k" in parsed_content` given.
format_web_search_results(parsed_content) ==
    IF ~IsDict(parsed_content) THEN Raised(<<>>, "TypeError")
    ELSE LET top_k == DictGet(parsed_content, "top_k", JNull) IN
         CASE IsList(top_k) -> WebSearchLoop(top_k.items, 1, <<>>)
           [] IsDict(top_k) \/ IsStr(top_k) ->
                IF Truthy(top_k) THEN Raised(<<>>, "AttributeError") ELSE Yielded(<<>>)
           [] OTHER -> Raised(<<>>, "TypeError")

ResultEntryFragment(result, i) ==
    IF IsDict(result)
    THEN LET name == DictGet(result, "name",
                       DictGet(result, "title", JStr("Result " \o ToString(i))))
             description == DictGet(result, "description",
                              DictGet(result, "content", DictGet(result, "summary", JStr(""))))
         IN "\n- **" \o PyStr(name) \o "**\n  " \o PyStr(description) \o "\n"
    ELSE "\n- " \o PyStr(result) \o "\n"

RECURSIVE ResultsLoop(_, _, _)
ResultsLoop(results, i, acc) ==
    IF i > Len(results) THEN acc
    ELSE IF i > MaxListEntries THEN ResultsLoop(results, i + 1, acc)
    ELSE ResultsLoop(results, i + 1, Append(acc, ResultEntryFragment(results[i], i)))

\* _format_results_list(results)
format_results_list(results) == Yielded(ResultsLoop(results, 1, <<>>))

\* The slice forgotten: every item is shown.
Take_All(items, n) == items

\* items[:n]
Take(items, n) == SubSeq(items, 1, IF Len(items) < n THEN Len(items) ELSE n)

\* `<=` where the source has `<`.
DictLineFragment_OffByOne(key, value) ==
    IF IsStr(value) /\ Len(value.s) <= MaxValueLen
    THEN key \o ": " \o value.s \o "\n"
    ELSE key \o ": [Complex data]\n"

DictLineFragment(key, value) ==
    IF IsStr(value) /\ Len(value.s) < MaxValueLen
    THEN key \o ": " \o value.s \o "\n"
    ELSE key \o ": [Complex data]\n"

\* _format_dict_results(parsed_content)
format_dict_results(parsed_content) ==
    LET shown == Take(parsed_content.items, MaxDictKeys) IN
    Yielded(<<FENCE_OPEN>>
            \o [i \in 1..Len(shown) |-> DictLineFragment(shown[i][1], shown[i][2])]
            \o <<FENCE_CLOSE>>)

\* The fragments of one entry of _format_list_results: one or none.
ListEntryFragments(item) ==
    CASE IsStr(item) -> <<"- " \o item.s \o "\n">>
      [] IsDict(item) /\ HasKey(item, "text") ->
            <<"- " \o PyStr(DictGet(item, "text", JNull)) \o "\n">>
      [] IsDict(item) /\ Len(item.items) > 0 ->
            LET first_value == item.items[1][2] IN
            IF IsStr(first_value) /\ Len(first_value.s) < MaxValueLen
            THEN <<"- " \o first_value.s \o "\n">>
            ELSE <<>>
      [] OTHER -> <<>>

RECURSIVE ListLoop(_)
ListLoop(items) ==
    IF items = <<>> THEN <<>> ELSE ListEntryFragments(Head(items)) \o ListLoop(Tail(items))

\* _format_list_results(parsed_content)
format_list_results(parsed_content) ==
    Yielded(<<"\n">> \o ListLoop(Take(parsed_content.items, MaxListEntries)))

\* parsed_content["results"]: only a dict can be subscripted by a string.
ResultsIsList(parsed_content) ==
    IF IsDict(parsed_content)
    THEN [val |-> IsList(DictGet(parsed_content, "results", JNull)), err |-> ""]
    ELSE [val |-> FALSE, err |-> "TypeError"]

\* The if/elif chain of _format_tool_results_summary on a parsed content.
FormatParsed(tool_name, parsed_content) ==
    LET has_top_k == IF tool_name = "web_search" THEN PyIn("top_k", parsed_content)
                     ELSE [val |-> FALSE, err |-> ""]
        has_results == PyIn("results", parsed_content)
        results_list == ResultsIsList(parsed_content)
    IN IF has_top_k.err # "" THEN Raised(<<>>, has_top_k.err)
       ELSE IF has_top_k.val THEN format_web_search_results(parsed_content)
       ELSE IF has_results.err # "" THEN Raised(<<>>, has_results.err)
       ELSE IF has_results.val /\ results_list.err # "" THEN Raised(<<>>, results_list.err)
       ELSE IF has_results.val /\ results_list.val
            THEN format_results_list(DictGet(parsed_content, "results", JNull).items)
       ELSE IF IsDict(parsed_content) /\ Len(parsed_content.items) > 0
            THEN format_dict_results(parsed_content)
       ELSE IF IsList(parsed_content) /\ Len(parsed_content.items) > 0
            THEN format_list_results(parsed_content)
       ELSE Yielded(<<>>)

\* One iteration of the loop of _format_tool_results_summary: the try block
\* with its two except clauses, for the recorded result <<tool_name, content>>.
FormatToolResult(tool_result) ==
    LET tool_name == tool_result[1]
        parsed == json_loads(tool_result[2])
    IN IF ~parsed.ok THEN <<ComplexDataFragment(tool_name)>>
       ELSE FormatParsed(tool_name, parsed.v).frags

RECURSIVE SummaryLoop_StopAtParseFailure(_)
\* The try around the loop instead of inside it: the first content that
\* fails to parse ends the summary after its fragment.
SummaryLoop_StopAtParseFailure(tool_results) ==
    IF tool_results = <<>> THEN <<>>
    ELSE IF ~json_loads(Head(tool_results)[2]).ok
    THEN FormatToolResult(Head(tool_results))
    ELSE FormatToolResult(Head(tool_results))
         \o SummaryLoop_StopAtParseFailure(Tail(tool_results))

RECURSIVE SummaryLoop(_)
SummaryLoop(tool_results) ==
    IF tool_results = <<>> THEN <<>>
    ELSE FormatToolResult(Head(tool_results)) \o SummaryLoop(Tail(tool_results))

\* _format_tool_results_summary(tool_results)
format_tool_results_summary(tool_results) ==
    <<SUMMARY_HEADER>> \o SummaryLoop(tool_results)

(***************************************************************************)
(* The inference and tool-execution steps of the ReAct handler.            *)
(***************************************************************************)
FinalAnswerFragment(answer) == "\n\n**Final Answer:**\n" \o PyStr(answer)

ParseFailedFragment(current_step_content) ==
    "\n\nFailed to parse ReAct step content:\n~~~json\n"
        \o RawText(current_step_content) \o "\n~~~"

\* e is the AttributeError of `.get` on a value that is no dict.
ProcessFailedFragment(v, current_step_content) ==
    "\n\nFailed to process ReAct step: '" \o TypeName(v)
        \o "' object has no attribute 'get'\n~~~json\n"
        \o RawText(current_step_content) \o "\n~~~"

\* The test without its first operand, the truth value of answer.
UsableAnswer_NotNull(answer) == answer # JStr("null") /\ answer # JNull

\* `answer and answer != "null" and answer is not None`
UsableAnswer(answer) == Truthy(answer) /\ answer # JStr("null") /\ answer # JNull

\* `except json.JSONDecodeError: pass`: a parse failure yields nothing.
process_inference_step_Swallow(current_step_content, final_answer) ==
    LET parsed == json_loads(current_step_content) IN
    IF ~parsed.ok
    THEN [frags |-> <<>>, ret |-> final_answer]
    ELSE IF ~IsDict(parsed.v)
    THEN [frags |-> <<ProcessFailedFragment(parsed.v, current_step_content)>>,
          ret |-> final_answer]
    ELSE LET answer == DictGet(parsed.v, "answer", JNull) IN
         IF UsableAnswer(answer)
         THEN [frags |-> <<FinalAnswerFragment(answer)>>, ret |-> answer]
         ELSE [frags |-> <<>>, ret |-> final_answer]

\* _process_inference_step: the fragments it yields and the value it returns.
process_inference_step(current_step_content, final_answer) ==
    LET parsed == json_loads(current_step_content) IN
    IF ~parsed.ok
    THEN [frags |-> <<ParseFailedFragment(current_step_content)>>, ret |-> final_answer]
    ELSE IF ~IsDict(parsed.v)
    THEN [frags |-> <<ProcessFailedFragment(parsed.v, current_step_content)>>,
          ret |-> final_answer]
    ELSE LET answer == DictGet(parsed.v, "answer", JNull) IN
         IF UsableAnswer(answer)
         THEN [frags |-> <<FinalAnswerFragment(answer)>>, ret |-> answer]
         ELSE [frags |-> <<>>, ret |-> final_answer]

RECURSIVE process_tool_execution(_, _)
\* _process_tool_execution: each response is appended and then printed; the
\* print in the JSONDecodeError handler passes `language=None`, a TypeError
\* that the outer `except Exception` catches, which ends the loop.
process_tool_execution(tool_responses, tool_results) ==
    IF tool_responses = <<>> THEN tool_results
    ELSE LET tool_response == Head(tool_responses)
             appended == Append(tool_results, <<tool_response[1], tool_response[2]>>)
         IN IF json_loads(tool_response[2]).ok
            THEN process_tool_execution(Tail(tool_responses), appended)
            ELSE appended

(***************************************************************************)
(* Events of the agent runtime.  payload: the event has a payload;        *)
(* event_type: payload.event_type; has_text/text: payload.delta.text;      *)
(* step_type, tool_responses, tool_calls: payload.step_details; repr: what *)
(* {response} prints.                                                      *)
(***************************************************************************)
Event(payload, event_type, has_text, text, step_type, tool_responses, tool_calls, repr) ==
    [tool_responses |-> tool_responses, payload |-> payload,
     event_type |-> event_type, has_text |-> has_text, text |-> text,
     step_type |-> step_type, tool_calls |-> tool_calls, repr |-> repr]

MalformedEvent(repr) == Event(FALSE, "", FALSE, <<>>, "", <<>>, <<>>, repr)
TextDelta(text) == Event(TRUE, "step_progress", TRUE, text, "", <<>>, <<>>, "")
ToolCallDelta == Event(TRUE, "step_progress", FALSE, <<>>, "", <<>>, <<>>, "")
InferenceComplete == Event(TRUE, "step_complete", FALSE, <<>>, "inference", <<>>, <<>>, "")
ToolExecutionComplete(tool_responses, tool_calls) ==
    Event(TRUE, "step_complete", FALSE, <<>>, "tool_execution", tool_responses, tool_calls, "")
ShieldCallComplete == Event(TRUE, "step_complete", FALSE, <<>>, "shield_call", <<>>, <<>>, "")
TurnStart == Event(TRUE, "turn_start", FALSE, <<>>, "", <<>>, <<>>, "")

(***************************************************************************)
(* State.  db: the records of the database that _fetch_components looks    *)
(* up.  The Chat object: components, session_state.  The agent runtime:    *)
(* agents and sessions count what was created, turn the calls.  One call   *)
(* at a time: pc is its position, raised the exception it ended with, out  *)
(* the fragments it has yielded; current_step_content, final_answer and    *)
(* tool_results are the locals of _handle_react_response.  hist records,   *)
(* per consumed event, the event, the step buffer before it and how many   *)
(* fragments it yielded.                                                   *)
(***************************************************************************)
VARIABLES db, components, session_state, agents, sessions, turn,
          pc, raised, out, hist, current_step_content, final_answer, tool_results,
          session_id, parked, users, supplied

chat == <<db, components, session_state, agents, sessions, turn>>
locals == <<current_step_content, final_answer, tool_results>>

\* What no step of the call in hand touches: the other call of the Chat
\* object, suspended (parked), and the users table with, for each row, the
\* password last supplied for it (supplied, a history variable).
rest == <<parked, users, supplied>>

vars == <<db, components, session_state, agents, sessions, turn,
          pc, raised, out, hist, current_step_content, final_answer, tool_results,
          session_id, parked, users, supplied>>

\* self.components is None (<<>>) or the fetched dict (<<dict>>).
None == <<>>

\* The database holds a record of the virtual assistant, of its model server.
Databases == [virtual_assistant : BOOLEAN, model_server : BOOLEAN]

\* The state of a call of stream or of a handler that has not begun: its
\* position, the error it raised, its fragments and events so far, and its
\* local variables.
IdleCall ==
    [tool_results |-> <<>>, current_step_content |-> <<>>, final_answer |-> JNull,
     pc |-> "idle", raised |-> "", out |-> <<>>, hist |-> <<>>, session_id |-> ""]

\* Chat.__init__, and no call in progress.
Init ==
    /\ db \in Databases
    /\ components = None
    /\ session_state = [agent_type |-> "Regular", messages |-> <<>>]
    /\ agents = 0
    /\ sessions = 0
    /\ turn = 0
    /\ pc = "idle"
    /\ raised = ""
    /\ out = <<>>
    /\ hist = <<>>
    /\ current_step_content = <<>>
    /\ final_answer = JNull
    /\ tool_results = <<>>
    /\ session_id = ""
    /\ parked = IdleCall
    /\ users = <<>>
    /\ supplied = <<>>

\* The event is consumed and yields frags.
Consume(ev, frags) ==
    /\ Len(hist) < MaxEvents
    /\ hist' = Append(hist, [n |-> Len(frags), ev |-> ev, buf |-> current_step_content])
    /\ out' = out \o frags

(***************************************************************************)
(* Inputs of the ReAct handler.                                            *)
(***************************************************************************)
ObjectText(key, value) ==
    <<Punct("{"), StrTok(key), Punct(":")>> \o value \o <<Punct("}")>>

AnswerValues ==
    {<<StrTok("42")>>, <<StrTok("null")>>, <<StrTok("")>>, <<LitTok("null")>>,
     <<NumTok(0)>>, <<NumTok(7)>>, <<Punct("["), Punct("]")>>}

ReactDeltas ==
    {ObjectText("answer", v) : v \in AnswerValues}
    \cup {ObjectText("thought", <<StrTok("look it up")>>),
          <<StrTok("alpha")>>,
          <<JunkTok("Thinking")>>,
          <<>>,
          <<Punct("{"), StrTok("answer"), Punct(":")>>,
          <<StrTok("42"), Punct("}")>>}

MalformedReprs == {"ErrorChunk(error='boom')"}

ListOfStrings == <<Punct("["), StrTok("alpha"), Punct("]")>>
NotJson == <<JunkTok("<html>")>>
TopKOne ==
    ObjectText("top_k",
        <<Punct("["), Punct("{"), StrTok("title"), Punct(":"), StrTok("alpha"), Punct(","),
          StrTok("content"), Punct(":"), StrTok(" beta\n"), Punct("}"), Punct("]")>>)

\* The tool_responses of a tool-execution step: <<tool_name, content>> each.
ReactToolResponses ==
    {<<>>,
     <<<<"calc", ObjectText("sum", <<StrTok("alpha")>>)>>>>,
     <<<<"calc", NotJson>>>>,
     <<<<"web_search", TopKOne>>>>,
     <<<<"calc", NotJson>>, <<"calc", ListOfStrings>>>>,
     <<<<"calc", ListOfStrings>>, <<"web_search", NotJson>>>>}

(***************************************************************************)
(* _handle_react_response, one action per event of the turn.               *)
(***************************************************************************)
ReactMalformedFragment(repr) ==
    "\n\n:red[_Llama Stack server Error:_]\n"
        \o "The response received is missing an expected ~payload~ attribute.\n"
        \o "This could indicate a malformed response or an internal issue within the server.\n\n"
        \o "Error details: " \o repr

\* A `continue` where the source has `return`.
PcAfterReactMalformed_Continue == "react"

\* The state after an event without payload: `return` ends the generator.
PcAfterReactMalformed == "done"

\* The accumulator and the tool-result list kept on the object instead of
\* initialised by the call: a new turn begins with what the last one left.
CallHandleReact_KeepLocals ==
    /\ pc \in {"idle", "done"}
    /\ pc' = "react"
    /\ session_state' = [session_state EXCEPT !.agent_type = "ReAct"]
    /\ final_answer' = JNull
    /\ out' = <<>>
    /\ hist' = <<>>
    /\ raised' = ""
    /\ UNCHANGED <<db, components, agents, sessions, turn, session_id, rest,
                   current_step_content, tool_results>>

\* The generator is created, for the first turn or for a turn after another:
\* the locals are initialised on its first step.
CallHandleReact ==
    /\ pc \in {"idle", "done"}
    /\ pc' = "react"
    /\ session_state' = [session_state EXCEPT !.agent_type = "ReAct"]
    /\ current_step_content' = <<>>
    /\ final_answer' = JNull
    /\ tool_results' = <<>>
    /\ out' = <<>>
    /\ hist' = <<>>
    /\ raised' = ""
    /\ UNCHANGED <<db, components, agents, sessions, turn, session_id, rest>>

\* An event without payload: one fragment, then `return`.
ReactMalformed ==
    /\ pc = "react"
    /\ \E repr \in MalformedReprs :
          Consume(MalformedEvent(repr), <<ReactMalformedFragment(repr)>>)
    /\ pc' = PcAfterReactMalformed
    /\ UNCHANGED <<chat, session_id, rest, raised, locals>>

\* step_progress with a text delta: buffered, `continue`.
ReactStepProgress ==
    /\ pc = "react"
    /\ \E text \in ReactDeltas :
          /\ Consume(TextDelta(text), <<>>)
          /\ current_step_content' = current_step_content \o text
    /\ UNCHANGED <<chat, session_id, rest, pc, raised, final_answer, tool_results>>

\* What the handler keeps of _process_inference_step's return value: the
\* `yield from` expression is a statement, so its value is dropped.
FinalAnswerAfterInference(old, returned) == old

\* step_complete of an inference step.
ReactInference ==
    /\ pc = "react"
    /\ LET r == process_inference_step(current_step_content, final_answer) IN
          /\ Consume(InferenceComplete, r.frags)
          /\ final_answer' = FinalAnswerAfterInference(final_answer, r.ret)
    /\ current_step_content' = <<>>
    /\ UNCHANGED <<chat, session_id, rest, pc, raised, tool_results>>

\* step_complete of a tool-execution step.
ReactToolExecution ==
    /\ pc = "react"
    /\ \E tool_responses \in ReactToolResponses :
          /\ Consume(ToolExecutionComplete(tool_responses, <<>>), <<>>)
          /\ tool_results' = process_tool_execution(tool_responses, tool_results)
    /\ current_step_content' = <<>>
    /\ UNCHANGED <<chat, session_id, rest, pc, raised, final_answer>>

\* The else branch without its assignment: the buffer outlives the step.
ReactOtherStep_NoReset ==
    /\ pc = "react"
    /\ Consume(ShieldCallComplete, <<>>)
    /\ UNCHANGED <<chat, session_id, rest, pc, raised, locals>>

\* step_complete of any other step type.
ReactOtherStep ==
    /\ pc = "react"
    /\ Consume(ShieldCallComplete, <<>>)
    /\ current_step_content' = <<>>
    /\ UNCHANGED <<chat, session_id, rest, pc, raised, final_answer, tool_results>>

\* Any other event with a payload falls through both ifs.
ReactIgnored ==
    /\ pc = "react"
    /\ \E ev \in {ToolCallDelta, TurnStart} : Consume(ev, <<>>)
    /\ UNCHANGED <<chat, session_id, rest, pc, raised, locals>>

\* `if not final_answer and tool_results:` after the loop.
EndOfTurnFragments(answer, results) ==
    IF ~Truthy(answer) /\ results # <<>>
    THEN format_tool_results_summary(results)
    ELSE <<>>

\* turn_response is exhausted.
ReactEnd ==
    /\ pc = "react"
    /\ out' = out \o EndOfTurnFragments(final_answer, tool_results)
    /\ pc' = "done"
    /\ UNCHANGED <<chat, session_id, rest, raised, hist, locals>>

NextReact ==
    \/ CallHandleReact
    \/ ReactMalformed
    \/ ReactStepProgress
    \/ ReactInference
    \/ ReactToolExecution
    \/ ReactOtherStep
    \/ ReactIgnored
    \/ ReactEnd

FullDatabase == [virtual_assistant |-> TRUE, model_server |-> TRUE]

InitReact == Init /\ db = FullDatabase

\* One run of _handle_react_response on a Chat object.
SpecReact == InitReact /\ [][NextReact]_vars

(***************************************************************************)
(* The summary on generated tool results: lists of up to MaxItems entries, *)
(* dicts of up to MaxKeys keys, string values around MaxValueLen.          *)
(***************************************************************************)
RECURSIVE Pad(_)
\* A string of n characters.
Pad(n) == IF n = 0 THEN "" ELSE "x" \o Pad(n - 1)

\* The i-th entry of a generated list.
Entry(kind, i) ==
    CASE kind = "str" -> <<StrTok("e" \o ToString(i))>>
      [] kind = "name" -> ObjectText("name", <<StrTok("e" \o ToString(i))>>)
      [] OTHER -> ObjectText("title", <<StrTok("e" \o ToString(i))>>)

RECURSIVE Elements(_, _)
Elements(kind, n) ==
    IF n = 0 THEN <<>>
    ELSE Elements(kind, n - 1) \o (IF n > 1 THEN <<Punct(",")>> ELSE <<>>) \o Entry(kind, n)

ListText(kind, n) == <<Punct("[")>> \o Elements(kind, n) \o <<Punct("]")>>

RECURSIVE Members(_)
Members(n) ==
    IF n = 0 THEN <<>>
    ELSE Members(n - 1) \o (IF n > 1 THEN <<Punct(",")>> ELSE <<>>)
         \o <<StrTok("k" \o ToString(n)), Punct(":"), StrTok("v" \o ToString(n))>>

DictText(n) == <<Punct("{")>> \o Members(n) \o <<Punct("}")>>

ValueLengths == {0, MaxValueLen - 1, MaxValueLen, MaxValueLen + 1}

LongValueText(len) ==
    <<Punct("{"), StrTok("k1"), Punct(":"), StrTok(Pad(len)), Punct(","),
      StrTok("k2"), Punct(":"), NumTok(7), Punct("}")>>

MixedListText ==
    <<Punct("[")>> \o ObjectText("text", <<StrTok("alpha")>>) \o <<Punct(",")>>
        \o ObjectText("k1", <<StrTok(Pad(MaxValueLen))>>) \o <<Punct(","), NumTok(7), Punct(",")>>
        \o ObjectText("k1", <<StrTok("beta")>>) \o <<Punct("]")>>

BrokenTopKText ==
    ObjectText("top_k", <<Punct("[")>> \o Entry("title", 1)
                          \o <<Punct(","), StrTok("oops"), Punct(",")>>
                          \o Entry("title", 3) \o <<Punct("]")>>)

ListShapedContents ==
    {ListText("str", n) : n \in 0..MaxItems}
    \cup {ObjectText("results", ListText(kind, n)) : kind \in {"str", "name"}, n \in 0..MaxItems}
    \cup {ObjectText("top_k", ListText("title", n)) : n \in 0..MaxItems}

DictShapedContents ==
    {DictText(n) : n \in 0..MaxKeys} \cup {LongValueText(len) : len \in ValueLengths}

OtherContents ==
    {MixedListText, BrokenTopKText, NotJson, <<NumTok(7)>>, <<StrTok("no results here")>>,
     ObjectText("top_k", <<NumTok(7)>>), ObjectText("results", <<NumTok(7)>>),
     <<Punct("["), StrTok("results"), Punct("]")>>}

FormatContents == ListShapedContents \cup DictShapedContents \cup OtherContents

FormatToolResponses ==
    {<<"calc", c>> : c \in FormatContents}
    \cup {<<"web_search", c>> : c \in ListShapedContents \cup OtherContents}

\* The sequences of 1..n elements of a set.
SeqsUpTo(set, n) == UNION {[1..m -> set] : m \in 1..n}

\* A ReAct handler that has consumed one tool-execution step.
InitFormat ==
    /\ db = FullDatabase
    /\ components = None
    /\ session_state = [agent_type |-> "ReAct", messages |-> <<>>]
    /\ agents = 0
    /\ sessions = 0
    /\ turn = 0
    /\ pc = "react"
    /\ raised = ""
    /\ out = <<>>
    /\ current_step_content = <<>>
    /\ final_answer = JNull
    /\ session_id = ""
    /\ parked = IdleCall
    /\ users = <<>>
    /\ supplied = <<>>
    /\ \E tool_responses \in SeqsUpTo(FormatToolResponses, MaxTools) :
          /\ hist = <<[n |-> 0, ev |-> ToolExecutionComplete(tool_responses, <<>>), buf |-> <<>>]>>
          /\ tool_results = process_tool_execution(tool_responses, <<>>)

\* The end-of-turn summary of _handle_react_response on generated tool results.
SpecFormat == InitFormat /\ [][ReactEnd]_vars

(***************************************************************************)
(* Chat.stream and _fetch_components.                                      *)
(***************************************************************************)
FetchedComponents ==
    [model_server |-> [model_name |-> "llama"], knowledge_bases |-> <<>>, tools |-> <<>>]

\* A missing model server degraded to a model_server of None fields, as the
\* `if model_server else None` of the dict suggest, instead of raised.
fetch_components_DegradeModelServer(cached, database) ==
    IF ~database.virtual_assistant THEN [err |-> "ValueError", components |-> cached]
    ELSE [err |-> "", components |-> <<FetchedComponents>>]

\* _fetch_components(db): the new self.components, and the error it raises.
\* Either lookup that finds no record raises ValueError before
\* self.components is assigned.
fetch_components(cached, database) ==
    IF ~database.virtual_assistant THEN [err |-> "ValueError", components |-> cached]
    ELSE IF ~database.model_server THEN [err |-> "ValueError", components |-> cached]
    ELSE [err |-> "", components |-> <<FetchedComponents>>]

\* `if not self.components: await self._fetch_components(db)`
ComponentsForStream(cached, database) ==
    IF cached = None THEN fetch_components(cached, database)
    ELSE [err |-> "", components |-> cached]

\* Another endpoint creates or deletes a record between two calls.
DbWrite ==
    /\ pc \in {"idle", "done", "failed"}
    /\ \E database \in Databases :
          /\ database # db
          /\ db' = database
    /\ UNCHANGED <<components, session_state, agents, sessions, turn,
                   pc, raised, out, hist, locals, session_id, rest>>

\* The test forgotten: every call creates a session.
HasSession_Never(state) == FALSE

HasSession(state) == "agent_session_id" \in DOMAIN state

\* session_state after `self.session_state["agent_type"] = agent_type` and
\* the creation of a session when there is none.
SessionStateForStream(state, new_id) ==
    LET typed == [k \in DOMAIN state \cup {"agent_type"} |->
                    IF k = "agent_type" THEN "Regular" ELSE state[k]]
    IN IF HasSession(state) THEN typed
       ELSE [k \in DOMAIN typed \cup {"agent_session_id"} |->
                IF k = "agent_session_id" THEN ToString(new_id) ELSE typed[k]]

\* Chat.stream(prompt, db) up to the first event of the turn: the lookup
\* fails and ValueError reaches the caller before anything else is done, or
\* the agent, the session and the turn are created and
\* _response_generator hands the turn to the handler of the agent type.
\* stream from the outcome of the lookup on: no await lies between the end
\* of _fetch_components and the first event of the turn.  session_id is the
\* local of line 395, the session the turn is sent with.
StreamSetup(fetched) ==
    /\ turn' = turn + 1
    /\ out' = <<>>
    /\ hist' = <<>>
    /\ current_step_content' = <<>>
    /\ final_answer' = JNull
    /\ tool_results' = <<>>
    /\ UNCHANGED <<db, rest>>
    /\ components' = fetched.components
    /\ raised' = fetched.err
    /\ IF fetched.err # ""
       THEN /\ pc' = "failed"
            /\ session_id' = ""
            /\ UNCHANGED <<session_state, agents, sessions>>
       ELSE /\ agents' = agents + 1
            /\ sessions' = IF HasSession(session_state) THEN sessions ELSE sessions + 1
            /\ session_state' = SessionStateForStream(session_state, sessions + 1)
            /\ session_id' = session_state'.agent_session_id
            /\ pc' = IF session_state'.agent_type = "ReAct" THEN "react" ELSE "regular"

Stream ==
    /\ pc \in {"idle", "done", "failed"}
    /\ turn < MaxTurns
    /\ StreamSetup(ComponentsForStream(components, db))

\* _reset_agent(), between two calls.
ResetAgent ==
    /\ pc \in {"idle", "done", "failed"}
    /\ session_state # <<>>
    /\ session_state' = <<>>
    /\ UNCHANGED <<db, components, agents, sessions, turn, pc, raised, out, hist, locals,
                   session_id, rest>>

(***************************************************************************)
(* _handle_regular_response, one action per event of the turn.             *)
(***************************************************************************)
RegularDeltas == {<<JunkTok("Hello")>>, <<JunkTok(" world")>>, <<>>}

ToolCallLists == {<<>>, <<"web_search">>, <<"calc", "web_search">>}

UsingToolFragment(tool_name) == "\n\n :grey[_Using \"" \o tool_name \o "\" tool:_]\n\n"

NoToolCallsFragment == "No tool_calls present in step_details"

RegularMalformedFragment(repr) == "Error occurred in the Llama Stack Cluster: " \o repr

\* `if delta.text:` where the source tests hasattr: an empty delta is dropped.
regular_fragments_SkipEmpty(ev) ==
    IF ev.payload
    THEN (IF ev.event_type = "step_progress" /\ ev.has_text /\ ev.text # <<>>
          THEN <<RawText(ev.text)>> ELSE <<>>)
         \o (IF ev.event_type = "step_complete" /\ ev.step_type = "tool_execution"
             THEN IF ev.tool_calls # <<>>
                  THEN <<UsingToolFragment(ev.tool_calls[1])>>
                  ELSE <<NoToolCallsFragment>>
             ELSE <<>>)
    ELSE <<RegularMalformedFragment(ev.repr)>>

\* `tool_calls[-1]` where the source has `tool_calls[0]`.
regular_fragments_LastToolCall(ev) ==
    IF ev.payload
    THEN (IF ev.event_type = "step_progress" /\ ev.has_text
          THEN <<RawText(ev.text)>> ELSE <<>>)
         \o (IF ev.event_type = "step_complete" /\ ev.step_type = "tool_execution"
             THEN IF ev.tool_calls # <<>>
                  THEN <<UsingToolFragment(ev.tool_calls[Len(ev.tool_calls)])>>
                  ELSE <<NoToolCallsFragment>>
             ELSE <<>>)
    ELSE <<RegularMalformedFragment(ev.repr)>>

\* The body of the loop of _handle_regular_response: the fragments of one event.
regular_fragments(ev) ==
    IF ev.payload
    THEN (IF ev.event_type = "step_progress" /\ ev.has_text
          THEN <<RawText(ev.text)>> ELSE <<>>)
         \o (IF ev.event_type = "step_complete" /\ ev.step_type = "tool_execution"
             THEN IF ev.tool_calls # <<>>
                  THEN <<UsingToolFragment(ev.tool_calls[1])>>
                  ELSE <<NoToolCallsFragment>>
             ELSE <<>>)
    ELSE <<RegularMalformedFragment(ev.repr)>>

\* A `return` after the diagnostic fragment, as in the ReAct handler.
RegularContinues_StopOnMalformed(ev) == ev.payload

\* An event without payload: the else branch, and the loop goes on.
RegularContinues(ev) == TRUE

RegularEvent(ev) ==
    /\ pc = "regular"
    /\ Consume(ev, regular_fragments(ev))
    /\ pc' = IF RegularContinues(ev) THEN "regular" ELSE "done"
    /\ UNCHANGED <<chat, session_id, rest, raised, locals>>

RegularMalformed == \E repr \in MalformedReprs : RegularEvent(MalformedEvent(repr))

RegularStepProgress == \E text \in RegularDeltas : RegularEvent(TextDelta(text))

RegularToolExecution ==
    \E tool_calls \in ToolCallLists : RegularEvent(ToolExecutionComplete(<<>>, tool_calls))

RegularIgnored ==
    \E ev \in {ToolCallDelta, InferenceComplete, ShieldCallComplete, TurnStart} :
        RegularEvent(ev)

\* turn_response is exhausted.
RegularEnd ==
    /\ pc = "regular"
    /\ pc' = "done"
    /\ UNCHANGED <<chat, session_id, rest, raised, out, hist, locals>>

Next ==
    \/ DbWrite
    \/ Stream
    \/ ResetAgent
    \/ RegularMalformed
    \/ RegularStepProgress
    \/ RegularToolExecution
    \/ RegularIgnored
    \/ RegularEnd

\* A Chat object serving stream calls one after the other.
Spec == Init /\ [][Next]_vars
(***************************************************************************)
(* What the claims speak of: the fragments of the i-th event of the turn,  *)
(* and the fragments yielded after the last event.                         *)
(***************************************************************************)
RECURSIVE Offset(_)
\* The number of fragments yielded before the i-th event.
Offset(i) == IF i <= 1 THEN 0 ELSE Offset(i - 1) + hist[i - 1].n

FragsOf(i) == SubSeq(out, Offset(i) + 1, Offset(i) + hist[i].n)

EndFrags == SubSeq(out, Offset(Len(hist) + 1) + 1, Len(out))

Events == 1..Len(hist)

IsInference(i) == hist[i].ev = InferenceComplete

\* The step buffer at the i-th event parses to a JSON object.
ParsesToObject(i) == json_loads(hist[i].buf).ok /\ IsDict(json_loads(hist[i].buf).v)

AnswerAt(i) == DictGet(json_loads(hist[i].buf).v, "answer", JNull)

\* The i-th event is an inference step whose text carries a usable answer.
AnsweredAt(i) == IsInference(i) /\ ParsesToObject(i) /\ UsableAnswer(AnswerAt(i))

(***************************************************************************)
(* C1: in ReAct mode, an inference step whose buffered text parses to JSON *)
(* with a usable answer yields exactly one fragment, ending in the answer, *)
(* and the turn then ends without a tool-results summary, also when tool   *)
(* results were recorded earlier in the turn.                              *)
(***************************************************************************)
C1_AnswerSuppressesSummary ==
    pc = "done" =>
        \A i \in Events :
            AnsweredAt(i) =>
                /\ FragsOf(i) = <<"\n\n**Final Answer:**\n" \o PyStr(AnswerAt(i))>>
                /\ EndFrags = <<>>

(***************************************************************************)
(* C2: in ReAct mode, the first event without payload yields exactly one   *)
(* diagnostic fragment, which is the last fragment of the turn: the turn   *)
(* is over, no later event is consumed and no summary follows, whatever    *)
(* tool results were recorded before.                                      *)
(***************************************************************************)
C2_MalformedEndsReactTurn ==
    \A i \in Events :
        ~hist[i].ev.payload =>
            /\ i = Len(hist)
            /\ pc = "done"
            /\ hist[i].n = 1
            /\ Len(out) = Offset(i) + 1
            /\ out[Len(out)] = ReactMalformedFragment(hist[i].ev.repr)

C2_Witness ==
    /\ pc = "done"
    /\ Len(hist) >= 2
    /\ ~hist[Len(hist)].ev.payload
    /\ tool_results # <<>>

\* An event is consumed by this step; NewEvent and NewFrags are what it was
\* and what it yielded.
Consuming == Len(hist') = Len(hist) + 1

NewEvent == hist'[Len(hist')].ev

NewFrags == SubSeq(out', Len(out) + 1, Len(out'))

IsTextDelta(i) ==
    hist[i].ev.payload /\ hist[i].ev.event_type = "step_progress" /\ hist[i].ev.has_text

(***************************************************************************)
(* C3: in Regular mode, an event without payload yields exactly one        *)
(* diagnostic fragment naming the event and the turn goes on; what an      *)
(* event yields does not depend on the events before it, so an event after *)
(* a malformed one yields what the same event yielded without it.          *)
(***************************************************************************)
C3_MalformedDoesNotEndRegularTurn ==
    [][(pc = "regular" /\ Consuming) =>
          /\ SubSeq(out', 1, Len(out)) = out
          /\ ~NewEvent.payload =>
                /\ pc' = "regular"
                /\ NewFrags = <<"Error occurred in the Llama Stack Cluster: " \o NewEvent.repr>>
          /\ \A j \in Events : hist[j].ev = NewEvent => FragsOf(j) = NewFrags]_vars

C3_Witness ==
    /\ pc = "regular"
    /\ Len(hist) = 3
    /\ ~hist[2].ev.payload
    /\ IsTextDelta(1)
    /\ hist[3].ev = hist[1].ev
    /\ Len(out) = 3
    /\ out[3] = out[1]
    /\ out[3] # ""

RECURSIVE JoinStrings(_)
JoinStrings(frags) == IF frags = <<>> THEN "" ELSE Head(frags) \o JoinStrings(Tail(frags))

RECURSIVE JoinTexts(_)
\* The deltas of the first i events, concatenated.
JoinTexts(i) == IF i = 0 THEN <<>> ELSE JoinTexts(i - 1) \o hist[i].ev.text

(***************************************************************************)
(* C4: in Regular mode, a turn of StepProgress events with text deltas     *)
(* yields one fragment per event, the event's delta, in arrival order; the *)
(* fragments concatenated are the deltas concatenated.                     *)
(***************************************************************************)
C4_DeltasVerbatim ==
    (pc \in {"regular", "done"} /\ \A i \in Events : IsTextDelta(i)) =>
        /\ Len(out) = Len(hist)
        /\ \A i \in Events : out[i] = RawText(hist[i].ev.text)
        /\ JoinStrings(out) = RawText(JoinTexts(Len(hist)))

C4_Witness ==
    /\ pc = "done"
    /\ Len(hist) >= 3
    /\ \A i \in Events : IsTextDelta(i)
    /\ hist[1].ev.text # hist[2].ev.text
    /\ \E i \in Events : hist[i].ev.text = <<>>
    /\ Len(out) = Len(hist)

(***************************************************************************)
(* C5: in ReAct mode, an inference step whose buffered text is not valid   *)
(* JSON (an empty buffer included) yields exactly one diagnostic fragment  *)
(* holding the raw text, raises nothing, and the turn goes on.             *)
(***************************************************************************)
C5_InvalidJsonDegrades ==
    [][(pc = "react" /\ Consuming /\ NewEvent = InferenceComplete
          /\ ~json_loads(current_step_content).ok) =>
          /\ out' = Append(out, "\n\nFailed to parse ReAct step content:\n~~~json\n"
                                 \o RawText(current_step_content) \o "\n~~~")
          /\ raised' = ""
          /\ pc' = "react"]_vars

C5_Witness ==
    /\ Len(hist) >= 3
    /\ IsInference(1) /\ hist[1].buf = <<>> /\ hist[1].n = 1
    /\ IsInference(3) /\ hist[3].buf # <<>> /\ ~json_loads(hist[3].buf).ok /\ hist[3].n = 1
    /\ Len(out) = 2
    /\ raised = ""

\* The turn has ended because the events were exhausted.
TurnExhausted == pc = "done" /\ (hist = <<>> \/ hist[Len(hist)].ev.payload)

C6_PerTool(tool_result) ==
    IF ~json_loads(tool_result[2]).ok
    THEN <<"\n**" \o tool_result[1]
            \o "** was used but returned complex data. Check the observation for details.\n">>
    ELSE FormatParsed(tool_result[1], json_loads(tool_result[2]).v).frags

RECURSIVE C6_Summary(_)
C6_Summary(results) ==
    IF results = <<>> THEN <<>> ELSE C6_PerTool(Head(results)) \o C6_Summary(Tail(results))

(***************************************************************************)
(* C6: in ReAct mode, a turn that ends with recorded tool results and no   *)
(* final answer yields the header "Here's what I found" and then the       *)
(* output of each recorded tool in recorded order, each formatted on its   *)
(* own: a content that fails to parse yields its "returned complex data"   *)
(* fragment and changes nothing of the other tools' output.                *)
(***************************************************************************)
C6_SummaryPerTool ==
    (TurnExhausted /\ tool_results # <<>> /\ \A i \in Events : ~AnsweredAt(i)) =>
        EndFrags = <<"\n\n**Here's what I found:**\n">> \o C6_Summary(tool_results)

C6_Witness ==
    /\ TurnExhausted
    /\ \A i \in Events : ~AnsweredAt(i)
    /\ Len(tool_results) >= 2
    /\ ~json_loads(tool_results[1][2]).ok
    /\ json_loads(tool_results[2][2]).ok
    /\ Len(EndFrags) >= 3

\* The first `limit` of n entries.
Shown(n, limit) == 1..(IF n < limit THEN n ELSE limit)

\* The entry lines the summary owes a generated list of n entries.
ListLines(family, n) ==
    [i \in Shown(n, 3) |->
        CASE family = "plain" -> "- e" \o ToString(i) \o "\n"
          [] family = "results" -> "\n- e" \o ToString(i) \o "\n"
          [] family = "named" -> "\n- **e" \o ToString(i) \o "**\n  \n"
          [] OTHER -> "\n- **e" \o ToString(i) \o "**\n  \n  [Source]()\n"]

\* The key lines the summary owes a generated dict of n keys.
KeyLines(n) == [i \in Shown(n, 5) |-> "k" \o ToString(i) \o ": v" \o ToString(i) \o "\n"]

\* What the summary owes each generated list-shaped or dict-shaped result:
\* rows <<tool name, content, fragments>>.
SizedRows ==
    {<<name, ListText("str", n),
       IF n = 0 THEN <<>> ELSE <<"\n">> \o ListLines("plain", n)>> :
        name \in {"calc", "web_search"}, n \in 0..MaxItems}
    \cup {<<name, ObjectText("results", ListText("str", n)), ListLines("results", n)>> :
            name \in {"calc", "web_search"}, n \in 0..MaxItems}
    \cup {<<name, ObjectText("results", ListText("name", n)), ListLines("named", n)>> :
            name \in {"calc", "web_search"}, n \in 0..MaxItems}
    \cup {<<"web_search", ObjectText("top_k", ListText("title", n)), ListLines("top_k", n)>> :
            n \in 0..MaxItems}
    \cup {<<"calc", DictText(n),
            IF n = 0 THEN <<>> ELSE <<"\n~~~\n">> \o KeyLines(n) \o <<"~~~\n">>>> :
            n \in 0..MaxKeys}

RowsOf(rows, tool_result) ==
    {row \in rows : row[1] = tool_result[1] /\ row[2] = tool_result[2]}

RECURSIVE Owed(_, _)
\* The fragments owed to a sequence of results that all have a row.
Owed(rows, results) ==
    IF results = <<>> THEN <<>>
    ELSE (CHOOSE row \in RowsOf(rows, Head(results)) : TRUE)[3] \o Owed(rows, Tail(results))

AllIn(rows, results) == \A i \in 1..Len(results) : RowsOf(rows, results[i]) # {}

(***************************************************************************)
(* C7: whatever the size of a recorded tool result, the summary shows the  *)
(* first 3 entries at most of a list-shaped result (web-search top_k,      *)
(* results list, plain list) and the first 5 keys at most of a dict-shaped *)
(* result, in input order, and nothing of the entries beyond.              *)
(***************************************************************************)
C7_EntriesCapped ==
    (pc = "done" /\ tool_results # <<>> /\ AllIn(SizedRows, tool_results)) =>
        out = <<"\n\n**Here's what I found:**\n">> \o Owed(SizedRows, tool_results)

C7_Witness ==
    /\ pc = "done"
    /\ MaxItems > 3
    /\ MaxKeys > 5
    /\ tool_results = <<<<"calc", ListText("str", MaxItems)>>, <<"calc", DictText(MaxKeys)>>>>
    /\ Len(out) = 1 + (1 + 3) + (1 + 5 + 1)
    /\ out[5] = "- e3\n"
    /\ out[11] = "k5: v5\n"

\* What the summary owes a dict whose first value is a string of len
\* characters and whose second value is a number.
LongValueRows ==
    {<<"calc", LongValueText(len),
       <<"\n~~~\n",
         IF len < 100 THEN "k1: " \o Pad(len) \o "\n" ELSE "k1: [Complex data]\n",
         "k2: [Complex data]\n",
         "~~~\n">>>> : len \in ValueLengths}

\* Some recorded result is a dict with a string value of len characters.
HasLongValue(len) ==
    \E i \in 1..Len(tool_results) : tool_results[i] = <<"calc", LongValueText(len)>>

(***************************************************************************)
(* C8: in a dict-shaped tool result, a string value of 100 characters or   *)
(* more is rendered as "{key}: [Complex data]" and its literal value is in *)
(* no fragment; a string value is rendered literally only when it is       *)
(* shorter than 100 characters.                                            *)
(***************************************************************************)
C8_LongValuesHidden ==
    (pc = "done" /\ AllIn(SizedRows \cup LongValueRows, tool_results)
       /\ \E len \in ValueLengths : HasLongValue(len)) =>
        /\ out = <<"\n\n**Here's what I found:**\n">>
                    \o Owed(SizedRows \cup LongValueRows, tool_results)
        /\ \A len \in ValueLengths :
              (HasLongValue(len) /\ len >= 100) =>
                  \A j \in 1..Len(out) : out[j] # "k1: " \o Pad(len) \o "\n"

C8_Witness ==
    /\ pc = "done"
    /\ tool_results = <<<<"calc", LongValueText(99)>>, <<"calc", LongValueText(100)>>>>
    /\ Len(out) = 9
    /\ out[3] = "k1: " \o Pad(99) \o "\n"
    /\ out[7] = "k1: [Complex data]\n"

\* The answer field of the step buffer at the i-th event is there.
HasAnswerAt(i) == HasKey(json_loads(hist[i].buf).v, "answer")

\* Python's false values among the JSON values.
FalseValues == {JNull, JBool(FALSE), JNum(0), JStr(""), JList(<<>>), JDict(<<>>)}

(***************************************************************************)
(* C9 as stated: in ReAct mode, at an inference step whose buffered text   *)
(* parses to a JSON object, the Final Answer fragment is yielded if and    *)
(* only if the answer field is present, not null and not the string        *)
(* "null"; otherwise the step yields nothing.                              *)
(***************************************************************************)
C9_AnswerEmittedUnlessNull ==
    \A i \in Events :
        (IsInference(i) /\ ParsesToObject(i)) =>
            IF HasAnswerAt(i) /\ AnswerAt(i) # JNull /\ AnswerAt(i) # JStr("null")
            THEN FragsOf(i) = <<"\n\n**Final Answer:**\n" \o PyStr(AnswerAt(i))>>
            ELSE FragsOf(i) = <<>>

(***************************************************************************)
(* C9: in ReAct mode, at an inference step whose buffered text parses to a *)
(* JSON object, the Final Answer fragment is yielded if and only if the    *)
(* answer field is present, is true in Python's sense (not null, false, 0, *)
(* nor an empty string, list or object) and is not the string "null";      *)
(* otherwise the step yields nothing.                                      *)
(***************************************************************************)
C9_AnswerEmittedWhenTrue ==
    \A i \in Events :
        (IsInference(i) /\ ParsesToObject(i)) =>
            IF HasAnswerAt(i) /\ AnswerAt(i) \notin FalseValues /\ AnswerAt(i) # JStr("null")
            THEN FragsOf(i) = <<"\n\n**Final Answer:**\n" \o PyStr(AnswerAt(i))>>
            ELSE FragsOf(i) = <<>>

C9_Witness ==
    /\ pc = "done"
    /\ Len(hist) = 2
    /\ IsInference(2) /\ ParsesToObject(2) /\ HasAnswerAt(2) /\ AnswerAt(2) = JStr("")
    /\ hist[2].n = 0
    /\ out = <<>>

\* This step is a call of Chat.stream.
StreamCalled == turn' = turn + 1

Complete(database) == database.virtual_assistant /\ database.model_server

(***************************************************************************)
(* C10: a call of Chat.stream with no cached components while the virtual  *)
(* assistant record or its model server is missing fails with an error     *)
(* raised to the caller: no fragment, no agent and no session are created, *)
(* and the cache stays unset, so the next call looks the records up again  *)
(* (and succeeds once both records are there).                             *)
(***************************************************************************)
C10_LookupFailureSurfaces ==
    [][(StreamCalled /\ components = None) =>
          IF Complete(db)
          THEN /\ raised' = ""
               /\ components' # None
               /\ agents' = agents + 1
          ELSE /\ raised' = "ValueError"
               /\ pc' = "failed"
               /\ out' = <<>>
               /\ agents' = agents
               /\ sessions' = sessions
               /\ session_state' = session_state
               /\ components' = None]_vars

C10_Witness ==
    /\ turn = 2
    /\ agents = 1
    /\ sessions = 1
    /\ components # None
    /\ raised = ""
    /\ pc = "regular"

(***************************************************************************)
(* backend/routes/users.py: the users table.  A row is keyed by its id and *)
(* holds the username and the password_hash column; supplied[id] is the    *)
(* password of the last request that wrote the row.                        *)
(***************************************************************************)
MaxUsers == 2

Usernames == {"ann", "bob"}

Passwords == {"hunter2", "s3cret"}

\* bcrypt.gensalt() draws the salt at random.
Salts == {1, 2}

\* bcrypt.hashpw(password, salt), decoded: the salt and a digest that only
\* this password and this salt give.
hashpw(password, salt) == "$2b$" \o ToString(salt) \o "$digest(" \o password \o ")"

\* bcrypt.checkpw(password, hashed): is hashed what hashpw gives for password
\* and the salt that hashed holds?
checkpw(password, hashed) == \E salt \in Salts : hashed = hashpw(password, salt)

UserIds == 1..MaxUsers

\* The table with row user_id written.
WithRow(table, user_id, row) ==
    [i \in DOMAIN table \cup {user_id} |-> IF i = user_id THEN row ELSE table[i]]

\* The table without row user_id.
WithoutRow(table, user_id) == [i \in DOMAIN table \ {user_id} |-> table[i]]

calls == <<pc, raised, out, hist, locals, session_id, parked>>

\* create_user(user, db)
CreateUser ==
    \E user_id \in UserIds \ DOMAIN users, username \in Usernames,
       password \in Passwords, salt \in Salts :
        LET hashed_password == hashpw(password, salt) IN
        /\ users' = WithRow(users, user_id,
                            [username |-> username, password_hash |-> hashed_password])
        /\ supplied' = WithRow(supplied, user_id, password)
        /\ UNCHANGED <<chat, calls>>

\* update_user(user_id, user, db) for a row that is there (404 otherwise):
\* `db_user.password_hash = user.password`.
UpdateUser ==
    \E user_id \in DOMAIN users, username \in Usernames, password \in Passwords :
        /\ users' = WithRow(users, user_id,
                            [username |-> username, password_hash |-> password])
        /\ supplied' = WithRow(supplied, user_id, password)
        /\ <<users', supplied'>> # <<users, supplied>>
        /\ UNCHANGED <<chat, calls>>

\* delete_user(user_id, db) for a row that is there (404 otherwise).
DeleteUser ==
    \E user_id \in DOMAIN users :
        /\ users' = WithoutRow(users, user_id)
        /\ supplied' = WithoutRow(supplied, user_id)
        /\ UNCHANGED <<chat, calls>>

NextUsers ==
    \/ CreateUser
    \/ UpdateUser
    \/ DeleteUser

\* The user endpoints called one after the other.
SpecUsers == InitReact /\ [][NextUsers]_vars

(***************************************************************************)
(* C11: after any sequence of create_user and successful update_user       *)
(* calls, the password_hash of every user is a hash of the password last   *)
(* supplied for that user, and never that password itself.                 *)
(***************************************************************************)
C11_PasswordsStoredHashed ==
    \A user_id \in DOMAIN users :
        /\ checkpw(supplied[user_id], users[user_id].password_hash)
        /\ users[user_id].password_hash # supplied[user_id]

RECURSIVE ResponsesUpTo(_)
\* The tool responses of the first i events, concatenated.
ResponsesUpTo(i) == IF i = 0 THEN <<>> ELSE ResponsesUpTo(i - 1) \o hist[i].ev.tool_responses

(***************************************************************************)
(* C12: in ReAct mode, every tool response of every tool-execution step is *)
(* appended to the tool-result list as (name, content), in order, valid    *)
(* JSON or not: the list is the concatenation of the tool responses of the *)
(* tool-execution steps so far, and at the end of the turn of all of them; *)
(* no error of reading the responses is raised.                            *)
(***************************************************************************)
C12_EveryResponseRecorded ==
    pc \in {"react", "done"} =>
        /\ tool_results = ResponsesUpTo(Len(hist))
        /\ raised = ""

RECURSIVE DeltasSince(_)
\* The text deltas of the events before the i-th and after the last
\* step_complete before it (or the start of the turn), concatenated.
DeltasSince(i) ==
    IF i <= 1 \/ hist[i - 1].ev.event_type = "step_complete" THEN <<>>
    ELSE DeltasSince(i - 1) \o (IF IsTextDelta(i - 1) THEN hist[i - 1].ev.text ELSE <<>>)

(***************************************************************************)
(* C13: in ReAct mode, a step_progress event with a text delta yields no   *)
(* fragment; the text an inference step parses, and answers from, is the   *)
(* concatenation in order of the deltas since the previous step_complete   *)
(* of any step type (or the start of the turn); every step_complete leaves *)
(* the accumulator empty.                                                  *)
(***************************************************************************)
C13_BufferIsDeltasOfStep ==
    pc \in {"react", "done"} =>
        /\ \A i \in Events :
              /\ IsTextDelta(i) => hist[i].n = 0
              /\ IsInference(i) =>
                    /\ hist[i].buf = DeltasSince(i)
                    /\ FragsOf(i) = process_inference_step(DeltasSince(i), JNull).frags
        /\ hist # <<>> /\ hist[Len(hist)].ev.payload =>
              current_step_content = DeltasSince(Len(hist) + 1)

C13_Witness ==
    /\ pc = "react"
    /\ Len(hist) = 3
    /\ IsTextDelta(1) /\ hist[1].ev.text # <<>>
    /\ hist[2].ev = ShieldCallComplete
    /\ IsInference(3) /\ hist[3].buf = <<>>
    /\ current_step_content = <<>>
    /\ out = <<"\n\nFailed to parse ReAct step content:\n~~~json\n\n~~~">>

\* The fragments of the first rule that matches, in the order (a) to (d).
FirstRule(tool_name, parsed_content) ==
    LET top_k == DictGet(parsed_content, "top_k", JNull)
        results == DictGet(parsed_content, "results", JNull)
    IN IF tool_name = "web_search" /\ IsDict(parsed_content) /\ IsList(top_k)
       THEN format_web_search_results(parsed_content).frags
       ELSE IF IsDict(parsed_content) /\ IsList(results)
       THEN format_results_list(results.items).frags
       ELSE IF IsDict(parsed_content) /\ Len(parsed_content.items) > 0
       THEN format_dict_results(parsed_content).frags
       ELSE IF IsList(parsed_content) /\ Len(parsed_content.items) > 0
       THEN format_list_results(parsed_content).frags
       ELSE <<>>

RECURSIVE FirstRules(_)
FirstRules(results) ==
    IF results = <<>> THEN <<>>
    ELSE FirstRule(Head(results)[1], json_loads(Head(results)[2]).v)
         \o FirstRules(Tail(results))

AllParse(results) == \A i \in 1..Len(results) : json_loads(results[i][2]).ok

(***************************************************************************)
(* C14: for each recorded tool result whose content parses as JSON, the    *)
(* summary applies the first rule that matches: (a) web_search with a      *)
(* top_k key holding a list, (b) a results key holding a list, (c) a       *)
(* non-empty object, (d) a non-empty list; a top_k or results that is no   *)
(* list leaves the result to the next rule, and a value that matches no    *)
(* rule yields no fragment.                                                *)
(***************************************************************************)
C14_FirstMatchingRule ==
    (pc = "done" /\ tool_results # <<>> /\ AllParse(tool_results)) =>
        out = <<"\n\n**Here's what I found:**\n">> \o FirstRules(tool_results)

(***************************************************************************)
(* C15: in Regular mode, a step_complete event of a tool-execution step    *)
(* yields exactly one fragment: the announcement naming the first tool     *)
(* call when the step has tool calls, the "No tool_calls present"          *)
(* diagnostic otherwise; a step_complete of any other step type yields     *)
(* nothing.                                                                *)
(***************************************************************************)
C15_ToolStepAnnounced ==
    [][(pc = "regular" /\ Consuming /\ NewEvent.payload
          /\ NewEvent.event_type = "step_complete") =>
          /\ SubSeq(out', 1, Len(out)) = out
          /\ NewFrags =
                IF NewEvent.step_type # "tool_execution" THEN <<>>
                ELSE IF NewEvent.tool_calls = <<>>
                THEN <<"No tool_calls present in step_details">>
                ELSE <<"\n\n :grey[_Using \"" \o NewEvent.tool_calls[1] \o "\" tool:_]\n\n">>]_vars

C15_Witness ==
    /\ pc = "regular"
    /\ Len(hist) = 3
    /\ hist[1].ev = ToolExecutionComplete(<<>>, <<"calc", "web_search">>)
    /\ hist[2].ev = ToolExecutionComplete(<<>>, <<>>)
    /\ hist[3].ev = InferenceComplete
    /\ out = <<"\n\n :grey[_Using \"calc\" tool:_]\n\n", "No tool_calls present in step_details">>

(***************************************************************************)
(* Two calls on one Chat object.  A call is suspended wherever it awaits   *)
(* or has yielded; the event loop then runs the other call.  The call in   *)
(* hand is in pc, raised, out, hist, session_id and the locals; the other  *)
(* one is parked.                                                          *)
(***************************************************************************)
ThisCall ==
    [tool_results |-> tool_results, current_step_content |-> current_step_content,
     final_answer |-> final_answer, pc |-> pc, raised |-> raised, out |-> out,
     hist |-> hist, session_id |-> session_id]

\* The event loop leaves the call in hand and resumes the other.
Switch ==
    /\ parked # ThisCall
    /\ parked' = ThisCall
    /\ tool_results' = parked.tool_results
    /\ current_step_content' = parked.current_step_content
    /\ final_answer' = parked.final_answer
    /\ pc' = parked.pc
    /\ raised' = parked.raised
    /\ out' = parked.out
    /\ hist' = parked.hist
    /\ session_id' = parked.session_id
    /\ UNCHANGED <<chat, users, supplied>>

\* The events of the two calls together stay below MaxEvents.
WithinBudget == Len(hist') + Len(parked.hist) < MaxEvents

\* Two runs of _handle_react_response on one Chat object, interleaved, and
\* runs one after the other.
NextReactTurns ==
    \/ CallHandleReact
    \/ Switch
    \/ ReactStepProgress /\ WithinBudget
    \/ ReactInference /\ WithinBudget
    \/ ReactToolExecution /\ WithinBudget
    \/ ReactEnd

SpecReactTurns == InitReact /\ [][NextReactTurns]_vars

RECURSIVE OwnEvents(_, _)
\* What the first i events of a turn make of a handler that began with an
\* empty accumulator and an empty tool-result list, whatever else the Chat
\* object served: <<accumulator, tool results, fragments>>.
OwnEvents(h, i) ==
    IF i = 0 THEN <<<<>>, <<>>, <<>>>>
    ELSE LET before == OwnEvents(h, i - 1)
             ev == h[i].ev
         IN CASE ~ev.payload ->
                   <<before[1], before[2], Append(before[3], ReactMalformedFragment(ev.repr))>>
              [] ev.payload /\ ev.event_type = "step_progress" /\ ev.has_text ->
                   <<before[1] \o ev.text, before[2], before[3]>>
              [] ev.payload /\ ev.event_type = "step_complete" /\ ev.step_type = "inference" ->
                   <<<<>>, before[2],
                     before[3] \o process_inference_step(before[1], JNull).frags>>
              [] ev.payload /\ ev.event_type = "step_complete"
                   /\ ev.step_type = "tool_execution" ->
                   <<<<>>, process_tool_execution(ev.tool_responses, before[2]), before[3]>>
              [] ev.payload /\ ev.event_type = "step_complete"
                   /\ ev.step_type \notin {"inference", "tool_execution"} ->
                   <<<<>>, before[2], before[3]>>
              [] OTHER -> before

\* The accumulator, the tool results and the fragments of a call are those
\* of its own events.
OwnTurn(call) ==
    call.pc \in {"react", "done"} =>
        LET own == OwnEvents(call.hist, Len(call.hist))
            exhausted == call.pc = "done"
                            /\ (call.hist = <<>> \/ call.hist[Len(call.hist)].ev.payload)
        IN /\ call.current_step_content = own[1]
           /\ call.tool_results = own[2]
           /\ call.out = own[3] \o (IF exhausted
                                     THEN EndOfTurnFragments(call.final_answer, own[2])
                                     ELSE <<>>)

(***************************************************************************)
(* C16: the step-text accumulator and the tool-result list are per turn.   *)
(* Each turn of a Chat object starts with both empty, and its accumulator, *)
(* its tool results and its fragments are those of its own events alone,   *)
(* after other turns and while another turn is in progress.                *)
(***************************************************************************)
C16_TurnsIsolated == OwnTurn(ThisCall) /\ OwnTurn(parked)

C16_Witness ==
    /\ pc = "done"
    /\ parked.pc = "react"
    /\ tool_results # <<>>
    /\ parked.tool_results # <<>>
    /\ tool_results # parked.tool_results
    /\ out = format_tool_results_summary(tool_results)

\* stream up to its first await: with no components cached the call is
\* suspended in _fetch_components, at `await db.execute(...)`.
StreamAwaitFetch ==
    /\ pc \in {"idle", "done", "failed"}
    /\ turn < MaxTurns
    /\ components = None
    /\ pc' = "fetching"
    /\ raised' = ""
    /\ out' = <<>>
    /\ hist' = <<>>
    /\ session_id' = ""
    /\ current_step_content' = <<>>
    /\ final_answer' = JNull
    /\ tool_results' = <<>>
    /\ UNCHANGED <<chat, rest>>

\* The lookups of the suspended call return; stream goes on to the first
\* event without another await.
StreamFetched ==
    /\ pc = "fetching"
    /\ turn < MaxTurns
    /\ StreamSetup(fetch_components(components, db))

\* Two calls of stream on one Chat object, interleaved, _reset_agent and
\* database writes in between.
NextTurns ==
    \/ DbWrite
    \/ Stream
    \/ StreamAwaitFetch
    \/ StreamFetched
    \/ ResetAgent
    \/ Switch
    \/ RegularMalformed /\ WithinBudget
    \/ RegularStepProgress /\ WithinBudget
    \/ RegularEnd

SpecTurns == Init /\ [][NextTurns]_vars

\* The session state holds a session id.
Known(state) == "agent_session_id" \in DOMAIN state

(***************************************************************************)
(* C17: for one Chat object, over stream calls one after the other or      *)
(* interleaved, a call creates an agent session only when the session      *)
(* state holds none, and otherwise its turn is sent with the session id    *)
(* the state holds; sessions are created by stream calls alone and the     *)
(* session id is forgotten by _reset_agent alone, so with no _reset_agent  *)
(* in between the session is created once and every later turn uses it.    *)
(***************************************************************************)
C17_OneSessionUntilReset ==
    [][/\ (turn' = turn + 1 /\ raised' = "") =>
             IF Known(session_state)
             THEN /\ sessions' = sessions
                  /\ session_state'.agent_session_id = session_state.agent_session_id
                  /\ session_id' = session_state.agent_session_id
             ELSE /\ sessions' = sessions + 1
                  /\ Known(session_state')
                  /\ session_state'.agent_session_id = ToString(sessions')
                  /\ session_id' = session_state'.agent_session_id
       /\ sessions' # sessions => (turn' = turn + 1 /\ raised' = "")
       /\ (Known(session_state) /\ session_state' # session_state) =>
             (session_state' = <<>> /\ sessions' = sessions /\ turn' = turn)]_vars

C17_Witness ==
    /\ turn = 2
    /\ sessions = 1
    /\ agents = 2
    /\ pc = "regular"
    /\ parked.pc = "regular"
    /\ session_id = "1"
    /\ parked.session_id = "1"
    /\ hist # <<>>
    /\ parked.hist # <<>>

====
